---- MODULE Spec2Model ----
(***************************************************************************)
(* The syslog writer of ecs-logs (lib/syslog/writer.go): dial strategy     *)
(* selection, connection establishment with retries, the global writer     *)
(* pool, and the write/flush path of a writer; the journald reader         *)
(* (lib/journald/reader.go); the datadog writer's NewWriter.               *)
(*                                                                         *)
(* Spec         callers of the pool: NewWriter, WriteMessage, Close        *)
(* SpecWrite    one writer, written to with messages and batches           *)
(* SpecDial     DialWriter with every WriterConfig                         *)
(* SpecReclose  Spec with callers that call Close() twice                  *)
(* SpecConc     threads that call NewWriter and Close concurrently         *)
(* SpecJournald one thread in ReadMessage, Close() from another            *)
(* SpecSanitize sanitizeStreamName on every stream name                    *)
(*                                                                         *)
(* A dial attempt is one step, so that the environment answers each        *)
(* attempt; every other call is one step.                                  *)
(*                                                                         *)
(* Strings that the code inspects by prefix (networks, addresses) are      *)
(* sequences of tokens, so that strings.HasPrefix is computed and not      *)
(* assumed: "unixgram" is <<"unix", "gram">>, "/dev/log" is                *)
(* <<"/", "dev/log">>.                                                     *)
(***************************************************************************)
EXTENDS Integers, Sequences, FiniteSets, TLC

\* ------------------------------------------------------------------ bounds
\* Number of writers ever created by a successful dial.
MaxWriters == 2
\* Capacity of writerPool in the model; the code's channel has capacity 100
\* (writer.go:32), and every pool operation only compares len with cap.
PoolCap == 1
\* Longest batch handed to WriteMessageBatch.
MaxBatch == 3
\* Capacity of the bufio.Writer of a bufferedConn, in rendered messages
\* (bufio's default is 4096 bytes).
BufCap == 1
\* Failed TLS handshakes over a proxied connection within one DialWriter call.
MaxHandshakeFailures == 1
\* Cap on newConnections: NewWriter calls that went on to dial.
MaxNewConnections == MaxWriters
\* Longest stream name sanitizeStreamName lets through, in bytes; the code's
\* limit is 512 (reader.go:379), and the function only compares len with it.
StreamCap == 3
\* Threads that call NewWriter and Close concurrently.
MaxCallers == 2
\* Entries without a container tag that one ReadMessage call passes over.
MaxSkipped == 2
\* Calls of r.Journal.Close() on one reader.
MaxJournalCloses == 2

\* ------------------------------------------------------- program constants
\* dialWriter gives up on a candidate pair at this attempt (writer.go:338).
MaxAttempts == 3

VARIABLES
    enablePooling,   \* writer.go:35
    env,             \* SYSLOG_URL as NewWriter sees it (writer.go:65-73)
    writerPool,      \* writer.go:32, a FIFO of writer ids
    newConnections,  \* writer.go:36
    writers,         \* every *writer built by newWriter, by id
    dial,            \* the DialWriter call in progress, if any
    dialLog,         \* the attempts and pauses of the DialWriter call in progress
    last,            \* the call that returned last, with its result; none
                     \* while a dial that began after it is the latest event
    rd,              \* the journald reader (reader.go:221-225), the thread
                     \* inside its ReadMessage, and the call that returned last
    callers,         \* the threads that call NewWriter and Close concurrently
    sname            \* a stream name and what sanitizeStreamName made of it

vars == <<enablePooling, env, writerPool, newConnections, writers, dial,
          dialLog, last, rd, callers, sname>>

syslogVars == <<enablePooling, env, writerPool, newConnections, writers, dial,
                dialLog, last>>

\* ----------------------------------------------------------------- strings
EmptyStr == <<>>

HasPrefix(s, p) == Len(s) >= Len(p) /\ SubSeq(s, 1, Len(p)) = p

NetUnix == <<"unix">>
NetUnixgram == <<"unix", "gram">>
NetUnixpacket == <<"unix", "packet">>
NetTcp == <<"tcp">>
NetUdp == <<"udp">>
NetUdp4 == <<"udp", "4">>
NetUdp6 == <<"udp", "6">>
NetTls == <<"tls">>
\* A scheme net.Dial does not know ("unknown network").
NetBogus == <<"bogus">>

AddrDevLog == <<"/", "dev/log">>
AddrVarRunSyslog == <<"/", "var/run/syslog">>
AddrVarRunLog == <<"/", "var/run/log">>
AddrLocalhost == <<"localhost:514">>
AddrPath == <<"/", "tmp/sock">>
AddrHost == <<"host:514">>

Networks == {EmptyStr, NetUnix, NetUnixgram, NetTcp, NetUdp, NetTls, NetBogus}
Addresses == {EmptyStr, AddrPath, AddrHost}
ProxyAddr == <<"proxy:1080">>

\* WriterConfig, the fields DialWriter reads; TLS is "nil" or "set".
WriterConfigs ==
    [Network : Networks, Address : Addresses, TLS : {"nil", "set"},
     SocksProxy : {EmptyStr, ProxyAddr}]

\* What NewWriter builds from SYSLOG_URL: url.Parse fails, or the variable is
\* unset, or Network/Address are the URL's scheme and host.  The datadog
\* NewWriter reads DATADOG_URL the same way.
EnvURLs ==
    { [set |-> FALSE, valid |-> TRUE, scheme |-> EmptyStr, host |-> EmptyStr],
      [set |-> TRUE, valid |-> TRUE, scheme |-> NetTcp, host |-> AddrHost],
      [set |-> TRUE, valid |-> TRUE, scheme |-> NetUdp, host |-> AddrHost],
      [set |-> TRUE, valid |-> TRUE, scheme |-> NetBogus, host |-> AddrHost],
      [set |-> TRUE, valid |-> FALSE, scheme |-> EmptyStr, host |-> EmptyStr] }

\* ---------------------------------------------------- DialWriter, selection
\* NetOpts as it would be with the stream socket tried before the datagram one.
NetOptsStreamFirst(config) ==
    IF Len(config.Network) # 0 THEN <<config.Network>>
    ELSE IF Len(config.Address) = 0 \/ HasPrefix(config.Address, <<"/">>)
         THEN <<NetUnix, NetUnixgram>>
         ELSE <<NetTls>>

\* NetOpts as it would be with plain TCP as the fallback for a host address.
NetOptsPlainFallback(config) ==
    IF Len(config.Network) # 0 THEN <<config.Network>>
    ELSE IF Len(config.Address) = 0 \/ HasPrefix(config.Address, <<"/">>)
         THEN <<NetUnixgram, NetUnix>>
         ELSE <<NetTcp>>

\* writer.go:85-95
NetOpts(config) ==
    IF Len(config.Network) # 0 THEN <<config.Network>>
    ELSE IF Len(config.Address) = 0 \/ HasPrefix(config.Address, <<"/">>)
         THEN <<NetUnixgram, NetUnix>>
         ELSE <<NetTls>>

\* writer.go:85-95, the value of config.Network after the selection
NetworkAfterSelection(config) ==
    IF Len(config.Network) # 0 THEN config.Network
    ELSE IF Len(config.Address) = 0 \/ HasPrefix(config.Address, <<"/">>)
         THEN NetUnix
         ELSE config.Network

\* writer.go:97-107
AddrOpts(config) ==
    IF Len(config.Address) # 0 THEN <<config.Address>>
    ELSE IF HasPrefix(NetworkAfterSelection(config), NetUnix)
         THEN <<AddrDevLog, AddrVarRunSyslog, AddrVarRunLog>>
         ELSE <<AddrLocalhost>>

\* ------------------------------------------------------------ result records
\* A message is named by its place in the batch that carries it.
Msgs == 1..MaxBatch

NoConfig ==
    [Network |-> EmptyStr, Address |-> EmptyStr, TLS |-> "nil",
     SocksProxy |-> EmptyStr]

\* The call that returned last.  err is "nil" or names the failure; the other
\* fields are filled by the operation they belong to.
Ret(op, w, err) ==
    [op |-> op, w |-> w, err |-> err,
     dialed |-> FALSE,     \* NewWriter, DialWriter: the call dialed
     config |-> NoConfig,  \* ... with this WriterConfig
     log |-> <<>>,         \* ... and made these attempts and pauses
     pooled |-> FALSE,     \* Close: the writer was offered to and taken by the pool
     batch |-> <<>>,       \* WriteMessage(Batch): the messages passed
     attempts |-> <<>>,    \* ... the messages handed to w.out, in order
     accepted |-> <<>>,    \* ... the messages for which w.out returned nil
     k |-> 0,              \* ... the place in the batch of the message whose
                           \*     write returned the error, 0 for none
     sent |-> <<>>,        \* ... what reached the transport during the call
     flushes |-> 0,        \* ... calls of w.flush
     wasDead |-> FALSE,    \* ... w.dead when the call began
     rfailed |-> <<>>,     \* ... the messages whose rendering failed
     connFailed |-> FALSE] \* ... an operation of the transport failed

NoDial ==
    [active |-> FALSE, via |-> "none", config |-> NoConfig,
     ni |-> 0, ai |-> 0, attempt |-> 0]

\* ----------------------------------------------------- dialWriter, one pair
\* writer.go:302-308: "tls" is dialed as "tcp" through tls.Dial
DialedNetwork(network) == IF network = NetTls THEN NetTcp ELSE network

\* writer.go:302-331: the dial function an attempt uses.  A configured SOCKS
\* proxy replaces the function chosen for the network, and the replacement
\* looks at the TLS config only.
DialMode(network, tlsConfig, socksProxy) ==
    IF socksProxy # EmptyStr
    THEN IF tlsConfig = "nil" THEN "socks" ELSE "socks+handshake"
    ELSE IF network = NetTls THEN "tls.Dial" ELSE "net.Dial"

\* What the environment can answer to one attempt: "ok", "fail" (no
\* connection was made) or "hsfail" (the proxied connection was made and the
\* TLS handshake over it failed).  net.Dial knows no network "bogus", and a
\* SOCKS5 dialer connects over TCP only.
Outcomes(network, mode) ==
    IF DialedNetwork(network) = NetBogus THEN {"fail"}
    ELSE IF mode \in {"socks", "socks+handshake"}
            /\ DialedNetwork(network) # NetTcp THEN {"fail"}
    ELSE IF mode = "socks+handshake" THEN {"ok", "fail", "hsfail"}
    ELSE {"ok", "fail"}

\* Whether a TLS handshake was run by an attempt, and completed.
HandshakeRun(mode, outcome) ==
    \/ mode = "tls.Dial" /\ outcome = "ok"
    \/ mode = "socks+handshake" /\ outcome \in {"ok", "hsfail"}
HandshakeDone(mode, outcome) ==
    mode \in {"tls.Dial", "socks+handshake"} /\ outcome = "ok"

\* writer.go:315-330: the connection an attempt opened and did not close.
\* tls.Dial closes its connection when the handshake fails; the SOCKS closure
\* returns the handshake's error and leaves rawConn as it is.
LeftOpen(mode, outcome) ==
    outcome = "ok" \/ (mode = "socks+handshake" /\ outcome = "hsfail")

\* writer.go:347-355: datagram networks get the conn itself, the others a
\* bufferedConn
IsBuffered(network) ==
    DialedNetwork(network) \notin
        {NetUdp, NetUdp4, NetUdp6, NetUnixgram, NetUnixpacket}

DialEvent(n, a, attempt, mode, outcome) ==
    [ev |-> "dial", n |-> n, a |-> a, attempt |-> attempt, mode |-> mode,
     proxied |-> mode \in {"socks", "socks+handshake"},
     hsRun |-> HandshakeRun(mode, outcome),
     hsDone |-> HandshakeDone(mode, outcome),
     ok |-> outcome = "ok",
     leftOpen |-> LeftOpen(mode, outcome)]

SleepEvent(n, a, attempt) ==
    [ev |-> "sleep", n |-> n, a |-> a, attempt |-> attempt, mode |-> "none",
     proxied |-> FALSE, hsRun |-> FALSE, hsDone |-> FALSE, ok |-> FALSE,
     leftOpen |-> FALSE]

HandshakeFailures(log) ==
    Cardinality({i \in 1..Len(log) : log[i].hsRun /\ ~log[i].ok})

\* IsLastAttempt as it would be with the test made one attempt later.
IsLastAttemptOneLater(attempt) == attempt = MaxAttempts + 1

\* writer.go:338: the attempt after which dialWriter returns the error
IsLastAttempt(attempt) == attempt = MaxAttempts

\* writer.go:140-165: the writer newWriter builds around a backend
NewWriterRecord(network) ==
    [buffered |-> IsBuffered(network),  \* backend is a bufferedConn
     dead |-> FALSE,
     buf |-> <<>>,        \* bufferedConn.buf, rendered messages not yet written
     bufErr |-> FALSE,    \* the sticky error of bufferedConn.buf
     closes |-> 0,        \* calls of backend.Close()
     holders |-> 1,       \* callers that were handed the writer and have not closed it
     closeCalls |-> 0]    \* Close() calls since the writer was last handed out

\* writer.go:81-109: DialWriter up to its first dialWriter call.  No call
\* has returned while the dial is the most recent thing that happened.
StartDial(via, config) ==
    /\ dial' = [active |-> TRUE, via |-> via, config |-> config,
                ni |-> 1, ai |-> 1, attempt |-> 1]
    /\ dialLog' = <<>>
    /\ last' = Ret("none", 0, "nil")

\* writer.go:111-131 and 333-358: one iteration of dialWriter's loop, with
\* what follows it: the pause, the next candidate pair, or DialWriter's return
DialAttempt(outcome) ==
    LET c == dial.config
        netopts == NetOpts(c)
        addropts == AddrOpts(c)
        n == netopts[dial.ni]
        a == addropts[dial.ai]
        mode == DialMode(n, c.TLS, c.SocksProxy)
        ev == DialEvent(n, a, dial.attempt, mode, outcome)
    IN
    /\ dial.active
    /\ outcome \in Outcomes(n, mode)
    /\ outcome = "hsfail" => HandshakeFailures(dialLog) < MaxHandshakeFailures
    /\ IF outcome = "ok"
       THEN /\ writers' = Append(writers, NewWriterRecord(n))
            /\ dialLog' = <<>>
            /\ dial' = NoDial
            /\ last' = [Ret(dial.via, Len(writers) + 1, "nil")
                            EXCEPT !.dialed = TRUE, !.config = c,
                                   !.log = Append(dialLog, ev)]
       ELSE IF ~IsLastAttempt(dial.attempt)
       THEN /\ dialLog' = dialLog \o <<ev, SleepEvent(n, a, dial.attempt)>>
            /\ dial' = [dial EXCEPT !.attempt = dial.attempt + 1]
            /\ UNCHANGED <<writers, last>>
       ELSE IF dial.ai < Len(addropts)
       THEN /\ dialLog' = Append(dialLog, ev)
            /\ dial' = [dial EXCEPT !.ai = dial.ai + 1, !.attempt = 1]
            /\ UNCHANGED <<writers, last>>
       ELSE IF dial.ni < Len(netopts)
       THEN /\ dialLog' = Append(dialLog, ev)
            /\ dial' = [dial EXCEPT !.ni = dial.ni + 1, !.ai = 1, !.attempt = 1]
            /\ UNCHANGED <<writers, last>>
       ELSE /\ dialLog' = <<>>
            /\ dial' = NoDial
            /\ last' = [Ret(dial.via, 0, "dial")
                            EXCEPT !.dialed = TRUE, !.config = c,
                                   !.log = Append(dialLog, ev)]
            /\ UNCHANGED writers
    /\ UNCHANGED <<enablePooling, env, writerPool, newConnections>>
    /\ UNCHANGED <<rd, callers, sname>>

\* writer.go:81: DialWriter called with a config of the caller's
DialWriter(config) ==
    /\ ~dial.active
    /\ Len(writers) < MaxWriters
    /\ StartDial("DialWriter", config)
    /\ UNCHANGED <<enablePooling, env, writerPool, newConnections, writers>>
    /\ UNCHANGED <<rd, callers, sname>>

\* ------------------------------------------------------------- NewWriter
\* writer.go:50-59: take a pooled writer, or go on to dial
NewWriterDecision(pooling, pool) ==
    IF pooling /\ Len(pool) > 0 THEN "take" ELSE "dial"

\* writer.go:63-73: the WriterConfig NewWriter hands to DialWriter
EnvConfig(e) ==
    [Network |-> IF e.set THEN e.scheme ELSE EmptyStr,
     Address |-> IF e.set THEN e.host ELSE EmptyStr,
     TLS |-> "nil", SocksProxy |-> EmptyStr]

\* writer.go:49-79
NewWriter ==
    IF NewWriterDecision(enablePooling, writerPool) = "take"
    THEN LET w == Head(writerPool) IN
         /\ writerPool' = Tail(writerPool)
         /\ writers' = [writers EXCEPT ![w].holders = @ + 1,
                                       ![w].closeCalls = 0]
         /\ last' = Ret("NewWriter", w, "nil")
         /\ UNCHANGED <<enablePooling, env, newConnections, dial, dialLog>>
         /\ UNCHANGED <<rd, callers, sname>>
    ELSE /\ ~dial.active
         /\ Len(writers) < MaxWriters
         /\ newConnections < MaxNewConnections
         /\ newConnections' = newConnections + 1
         /\ IF env.set /\ ~env.valid
            THEN /\ last' = Ret("NewWriter", 0, "invalid syslog URL")
                 /\ UNCHANGED <<dial, dialLog>>
            ELSE StartDial("NewWriter", EnvConfig(env))
         /\ UNCHANGED <<enablePooling, env, writerPool, writers>>
         /\ UNCHANGED <<rd, callers, sname>>

\* datadog/writer.go:15-39: the datadog NewWriter on DATADOG_URL = e: the
\* error it returns before any dial, or "dial" when it goes on to
\* statsd.DialWriter
DatadogNewWriter(e) ==
    IF e.set /\ ~e.valid THEN "invalid datadog URL"
    ELSE IF e.set /\ e.scheme # NetUdp
    THEN "invalid datadog URL: only the UDP protocol is supported"
    ELSE "dial"

\* ----------------------------------------------------------------- Close
\* CloseDecision as it would be with the pool taken to have room while it
\* holds PoolCap writers.
CloseDecisionOffByOne(dead, pooling, poolLen) ==
    IF dead THEN "close"
    ELSE IF pooling /\ poolLen <= PoolCap THEN "pool"
    ELSE "close"

\* CloseDecision as it would be without the test of w.dead.
CloseDecisionPoolsDead(dead, pooling, poolLen) ==
    IF pooling /\ poolLen < PoolCap THEN "pool" ELSE "close"

\* CloseDecision as it would be without the test of enablePooling.
CloseDecisionIgnoresFlag(dead, pooling, poolLen) ==
    IF dead THEN "close"
    ELSE IF poolLen < PoolCap THEN "pool"
    ELSE "close"

\* writer.go:187-203: what Close does with the writer
CloseDecision(dead, pooling, poolLen) ==
    IF dead THEN "close"
    ELSE IF pooling /\ poolLen < PoolCap THEN "pool"
    ELSE "close"

\* writer.go:187-203; bufferedConn.Close (writer.go:293) closes the conn and
\* does not flush the buffer
CloseBody(w) ==
    LET d == CloseDecision(writers[w].dead, enablePooling, Len(writerPool))
        released == [writers EXCEPT ![w].holders = IF @ > 0 THEN @ - 1 ELSE 0,
                                    ![w].closeCalls = @ + 1]
    IN
    /\ IF d = "pool"
       THEN /\ writerPool' = Append(writerPool, w)
            /\ writers' = released
            /\ last' = [Ret("Close", w, "nil") EXCEPT !.pooled = TRUE]
       ELSE /\ writerPool' = writerPool
            /\ writers' = [released EXCEPT ![w].closes = @ + 1]
            /\ last' = Ret("Close", w,
                           IF writers[w].closes > 0
                           THEN "use of closed network connection" ELSE "nil")
    /\ UNCHANGED <<enablePooling, env, newConnections, dial, dialLog>>
    /\ UNCHANGED <<rd, callers, sname>>

\* A caller closes a writer it was handed.
Close(w) ==
    /\ writers[w].holders > 0
    /\ CloseBody(w)

\* A caller calls Close() once more on a writer it has already closed.
CloseAgain(w) ==
    /\ writers[w].holders = 0
    /\ writers[w].closeCalls = 1
    /\ writers[w].closes < 2
    /\ CloseBody(w)

\* ------------------------------------------------------------ write path
\* A write call runs on a copy of the writer's fields plus what the call has
\* done so far.  failAt is the environment's input: the transport operation
\* of this call (counted from 1) that fails, 0 for none.  A transport that
\* was closed fails every operation.  A failed transport write delivers
\* nothing.
CallState(wr, failAt) ==
    [buffered |-> wr.buffered, dead |-> wr.dead, buf |-> wr.buf,
     bufErr |-> wr.bufErr, closed |-> wr.closes > 0, failAt |-> failAt,
     nops |-> 0, sent |-> <<>>, attempts |-> <<>>, accepted |-> <<>>,
     flushes |-> 0, k |-> 0, rfailed |-> <<>>, connFailed |-> FALSE,
     err |-> FALSE, errKind |-> "nil"]

\* A rendered message; full is FALSE when the template's execution stopped
\* with an error, leaving a prefix of the text.
Rendered(m, renderOK) == [m |-> m, full |-> renderOK]

\* net.Conn.Write of the backend's connection
ConnWrite(st, units) ==
    LET n == st.nops + 1 IN
    IF st.closed \/ n = st.failAt
    THEN [st EXCEPT !.nops = n, !.err = TRUE, !.connFailed = TRUE]
    ELSE [st EXCEPT !.nops = n, !.err = FALSE, !.sent = @ \o units]

\* writer.go:295: bufferedConn.Write is bufio.Writer.Write.  The text is
\* buffered while it fits; a full buffer is written out first; an error of
\* the connection sticks to the bufio.Writer.
BufioWrite(st, u) ==
    IF st.bufErr THEN [st EXCEPT !.err = TRUE]
    ELSE IF Len(st.buf) < BufCap
    THEN [st EXCEPT !.buf = Append(@, u), !.err = FALSE]
    ELSE LET f == ConnWrite(st, st.buf) IN
         IF f.err THEN [f EXCEPT !.bufErr = TRUE]
         ELSE [f EXCEPT !.buf = <<u>>]

\* writer.go:294: bufferedConn.Flush is bufio.Writer.Flush
BufioFlush(st) ==
    IF st.bufErr THEN [st EXCEPT !.err = TRUE]
    ELSE IF Len(st.buf) = 0 THEN [st EXCEPT !.err = FALSE]
    ELSE LET f == ConnWrite(st, st.buf) IN
         IF f.err THEN [f EXCEPT !.bufErr = TRUE]
         ELSE [f EXCEPT !.buf = <<>>]

\* writer.go:261-263: the template is executed straight into the backend;
\* an error of the backend or of the execution is returned
directWrite(st, m, renderOK) ==
    LET r == BufioWrite(st, Rendered(m, renderOK)) IN
    IF r.err THEN r ELSE [r EXCEPT !.err = ~renderOK]

\* writer.go:265-270: the template is executed into w.buf, its error is
\* dropped, and w.buf is written to the backend in one Write
bufferedWrite(st, m, renderOK) ==
    ConnWrite(st, <<Rendered(m, renderOK)>>)

\* writer.go:152-157 and 232-259: w.write ends in w.out, which newWriter
\* chose by the backend's type
write(st, m, renderOK) ==
    LET s1 == [st EXCEPT !.attempts = Append(@, m),
                         !.rfailed = IF renderOK THEN @ ELSE Append(@, m)]
        r == IF st.buffered THEN directWrite(s1, m, renderOK)
             ELSE bufferedWrite(s1, m, renderOK)
    IN IF r.err THEN r ELSE [r EXCEPT !.accepted = Append(@, m)]

\* writer.go:152-157: w.flush is the bufferedConn's Flush, or does nothing
flush(st) ==
    LET s1 == [st EXCEPT !.flushes = @ + 1] IN
    IF st.buffered THEN BufioFlush(s1) ELSE [s1 EXCEPT !.err = FALSE]

\* BatchLoop as it would be if a failed write did not end the batch.
RECURSIVE BatchLoopKeepsGoing(_, _, _, _)
BatchLoopKeepsGoing(st, batch, i, rfail) ==
    IF i > Len(batch) THEN [st EXCEPT !.err = st.k # 0]
    ELSE LET r == write(st, batch[i], i # rfail) IN
         IF r.err /\ st.k = 0
         THEN BatchLoopKeepsGoing(
                  [r EXCEPT !.dead = TRUE, !.errKind = "write", !.k = i],
                  batch, i + 1, rfail)
         ELSE BatchLoopKeepsGoing(r, batch, i + 1, rfail)

\* writer.go:206-211: the loop of WriteMessageBatch from message i on;
\* rfail is the message of the batch whose rendering fails, 0 for none
RECURSIVE BatchLoop(_, _, _, _)
BatchLoop(st, batch, i, rfail) ==
    IF i > Len(batch) THEN st
    ELSE LET r == write(st, batch[i], i # rfail) IN
         IF r.err THEN [r EXCEPT !.dead = TRUE, !.errKind = "write", !.k = i]
         ELSE BatchLoop(r, batch, i + 1, rfail)

\* FlushStep as it would be if the call returned without flushing.
FlushStepSkipped(st) == st

\* writer.go:212-216 and 224-229: the flush that ends a write call
FlushStep(st) ==
    LET f == flush(st) IN
    IF f.err THEN [f EXCEPT !.dead = TRUE, !.errKind = "flush"] ELSE f

\* writer.go:205-217
WriteMessageBatchResult(wr, batch, failAt, rfail) ==
    LET r == BatchLoop(CallState(wr, failAt), batch, 1, rfail) IN
    IF r.err THEN r ELSE FlushStep(r)

\* WriteMessageResult as it would be if a failed flush left w.dead alone.
WriteMessageResultFlushNotDead(wr, m, failAt, renderOK) ==
    LET r == write(CallState(wr, failAt), m, renderOK) IN
    IF r.err THEN [r EXCEPT !.dead = TRUE, !.errKind = "write", !.k = 1]
    ELSE LET f == flush(r) IN
         IF f.err THEN [f EXCEPT !.errKind = "flush"] ELSE f

\* writer.go:219-230
WriteMessageResult(wr, m, failAt, renderOK) ==
    LET r == write(CallState(wr, failAt), m, renderOK) IN
    IF r.err THEN [r EXCEPT !.dead = TRUE, !.errKind = "write", !.k = 1]
    ELSE FlushStep(r)

\* The writer and the returned call after a write call that ended in r.
AfterWrite(op, w, batch, r) ==
    /\ writers' = [writers EXCEPT ![w].dead = r.dead, ![w].buf = r.buf,
                                  ![w].bufErr = r.bufErr]
    /\ last' = [Ret(op, w, r.errKind) EXCEPT
                    !.batch = batch, !.attempts = r.attempts,
                    !.accepted = r.accepted, !.k = r.k, !.sent = r.sent,
                    !.flushes = r.flushes, !.wasDead = writers[w].dead,
                    !.rfailed = r.rfailed, !.connFailed = r.connFailed]
    /\ UNCHANGED <<enablePooling, env, writerPool, newConnections, dial, dialLog>>
    /\ UNCHANGED <<rd, callers, sname>>

Batches == {[i \in 1..n |-> i] : n \in 0..MaxBatch}

\* writer.go:205: a caller writes a batch on a writer it holds
WriteMessageBatch(w, batch, failAt, rfail) ==
    /\ writers[w].holders > 0
    /\ AfterWrite("WriteMessageBatch", w, batch,
                  WriteMessageBatchResult(writers[w], batch, failAt, rfail))

\* writer.go:219: a caller writes one message on a writer it holds
WriteMessage(w, m, failAt, renderOK) ==
    /\ writers[w].holders > 0
    /\ AfterWrite("WriteMessage", w, <<m>>,
                  WriteMessageResult(writers[w], m, failAt, renderOK))

NoCallers == <<>>

\* ------------------------------------------------- concurrent callers
\* Each caller is a thread that calls NewWriter, writes on the writer it
\* was given, and calls Close() on it once.  A step is what a thread does up
\* to and including one operation on the shared state: the receive from or
\* the send to writerPool (a channel operation, atomic), or the return of the
\* dial that made the writer.
IdleCaller == [pc |-> "idle", w |-> 0]

\* The callers that have writer w in hand, Close() not yet returned.
Holders(w) ==
    {c \in DOMAIN callers : callers[c].pc # "idle" /\ callers[c].w = w}

\* writer.go:50-61: the non-blocking receive from the pool; on a miss the
\* call counts a new connection and goes on to dial
ConcNewWriter(c) ==
    /\ callers[c].pc = "idle"
    /\ IF NewWriterDecision(enablePooling, writerPool) = "take"
       THEN LET w == Head(writerPool) IN
            /\ writerPool' = Tail(writerPool)
            /\ writers' = [writers EXCEPT ![w].holders = @ + 1,
                                          ![w].closeCalls = 0]
            /\ callers' = [callers EXCEPT ![c] = [pc |-> "holding", w |-> w]]
            /\ UNCHANGED newConnections
       ELSE /\ newConnections < MaxNewConnections
            /\ newConnections' = newConnections + 1
            /\ callers' = [callers EXCEPT ![c].pc = "dial"]
            /\ UNCHANGED <<writerPool, writers>>
    /\ UNCHANGED <<enablePooling, env, dial, dialLog, last, rd, sname>>

\* writer.go:63-79 and 81-131: the rest of NewWriter, as the other threads
\* see it: it returns an error, or a writer newWriter has just built on a
\* connection of network n
ConcDialReturn(c, n, outcome) ==
    LET config == EnvConfig(env) IN
    /\ callers[c].pc = "dial"
    /\ IF outcome = "ok"
       THEN /\ ~(env.set /\ ~env.valid)
            /\ \E i \in 1..Len(NetOpts(config)) : NetOpts(config)[i] = n
            /\ "ok" \in Outcomes(n, DialMode(n, config.TLS, config.SocksProxy))
            /\ writers' = Append(writers, NewWriterRecord(n))
            /\ callers' = [callers EXCEPT
                               ![c] = [pc |-> "holding", w |-> Len(writers) + 1]]
       ELSE /\ callers' = [callers EXCEPT ![c] = IdleCaller]
            /\ UNCHANGED writers
    /\ UNCHANGED <<enablePooling, env, writerPool, newConnections, dial,
                   dialLog, last, rd, sname>>

\* writer.go:219-230: the holder writes a message
ConcWriteMessage(c, failAt) ==
    LET w == callers[c].w
        r == WriteMessageResult(writers[w], 1, failAt, TRUE)
    IN
    /\ callers[c].pc = "holding"
    /\ writers' = [writers EXCEPT ![w].dead = r.dead, ![w].buf = r.buf,
                                  ![w].bufErr = r.bufErr]
    /\ UNCHANGED <<enablePooling, env, writerPool, newConnections, dial,
                   dialLog, last, rd, callers, sname>>

\* writer.go:187-194: Close() begins: the tests of w.dead and enablePooling
ConcClose(c) ==
    LET w == callers[c].w IN
    /\ callers[c].pc = "holding"
    /\ callers' = [callers EXCEPT ![c].pc =
                       IF writers[w].dead THEN "backendClose"
                       ELSE IF enablePooling THEN "offer"
                       ELSE "backendClose"]
    /\ writers' = [writers EXCEPT ![w].closeCalls = @ + 1]
    /\ UNCHANGED <<enablePooling, env, writerPool, newConnections, dial,
                   dialLog, last, rd, sname>>

\* ConcOffer as it would be if Close() went on to close the backend after the
\* pool took the writer.
ConcOfferFallsThrough(c) ==
    LET w == callers[c].w IN
    /\ callers[c].pc = "offer"
    /\ IF Len(writerPool) < PoolCap
       THEN writerPool' = Append(writerPool, w)
       ELSE UNCHANGED writerPool
    /\ callers' = [callers EXCEPT ![c].pc = "backendClose"]
    /\ UNCHANGED <<enablePooling, env, writers, newConnections, dial,
                   dialLog, last, rd, sname>>

\* writer.go:195-199: the non-blocking send to the pool; Close() returns when
\* the pool took the writer
ConcOffer(c) ==
    LET w == callers[c].w IN
    /\ callers[c].pc = "offer"
    /\ IF Len(writerPool) < PoolCap
       THEN /\ writerPool' = Append(writerPool, w)
            /\ writers' = [writers EXCEPT ![w].holders = @ - 1]
            /\ callers' = [callers EXCEPT ![c] = IdleCaller]
       ELSE /\ callers' = [callers EXCEPT ![c].pc = "backendClose"]
            /\ UNCHANGED <<writerPool, writers>>
    /\ UNCHANGED <<enablePooling, env, newConnections, dial, dialLog, last,
                   rd, sname>>

\* writer.go:189 and 202: w.backend.Close(), and Close() returns
ConcBackendClose(c) ==
    LET w == callers[c].w IN
    /\ callers[c].pc = "backendClose"
    /\ writers' = [writers EXCEPT ![w].closes = @ + 1, ![w].holders = @ - 1]
    /\ callers' = [callers EXCEPT ![c] = IdleCaller]
    /\ UNCHANGED <<enablePooling, env, writerPool, newConnections, dial,
                   dialLog, last, rd, sname>>
NoName == [in |-> <<>>, once |-> <<>>, twice |-> <<>>, applied |-> 0]

\* -------------------------------------------------------- journald reader
\* A stream name is a sequence of bytes.  The byte values that
\* sanitizeStreamName tells apart are ':' and '*'; '/' is what it writes.
Bytes == {"a", ":", "*", "/"}

\* reader.go:375-383.  strings.Replace(name, old, "/", -1) replaces every
\* byte equal to old; name[:max] keeps the first max bytes.
Replace(name, old, new) ==
    [i \in 1..Len(name) |-> IF name[i] = old THEN new ELSE name[i]]

\* sanitizeStreamName as it would be with only the ':' replaced.
sanitizeStreamNameColonOnly(name) ==
    LET n1 == Replace(name, ":", "/")
        max == IF Len(n1) > StreamCap THEN StreamCap ELSE Len(n1)
    IN SubSeq(n1, 1, max)

sanitizeStreamName(name) ==
    LET n1 == Replace(name, ":", "/")
        n2 == Replace(n1, "*", "/")
        max == IF Len(n2) > StreamCap THEN StreamCap ELSE Len(n2)
    IN SubSeq(n2, 1, max)

\* The stream names handed to sanitizeStreamName: every sequence of bytes up
\* to two bytes longer than the limit.
StreamNames == UNION {[1..n -> Bytes] : n \in 0..(StreamCap + 2)}

\* reader.go:281: msg.Stream = sanitizeStreamName(msg.Stream), and the same
\* applied to its own result
Sanitize ==
    /\ sname.applied < 2
    /\ sname' = IF sname.applied = 0
                THEN [sname EXCEPT !.once = sanitizeStreamName(sname.in),
                                   !.applied = 1]
                ELSE [sname EXCEPT !.twice = sanitizeStreamName(sname.once),
                                   !.applied = 2]
    /\ UNCHANGED <<syslogVars, rd, callers>>

\* The fields of a journal entry that decide what getMessage returns.
JournalFields == {"CONTAINER_TAG", "CONTAINER_NAME", "CONTAINER_ID_FULL"}

Absent == [has |-> FALSE, v |-> <<>>]
Val(v) == [has |-> TRUE, v |-> v]

\* A CONTAINER_ID_FULL longer than a stream name may be, with a '*' in it.
LongId == [i \in 1..(StreamCap + 1) |-> IF i = 2 THEN "*" ELSE "a"]

\* The entries sd_journal_next can move to: each field is absent, or present
\* with a value (CONTAINER_TAG also with the empty value).
Entries ==
    { [f \in JournalFields |->
          CASE f = "CONTAINER_TAG" -> t
            [] f = "CONTAINER_NAME" -> n
            [] OTHER -> i] :
      t \in {Absent, Val(<<>>), Val(<<"a">>)},
      n \in {Absent, Val(<<"a", ":", "a">>)},
      i \in {Absent, Val(LongId)} }

NoEntry == [f \in JournalFields |-> Absent]

\* sdjournal's GetDataValue on the current entry: the value of the field, or
\* "" and an error when the entry has no such field.
GetDataValue(e, field) ==
    IF e[field].has THEN [v |-> e[field].v, err |-> FALSE]
    ELSE [v |-> <<>>, err |-> TRUE]

\* lib.Message, the fields the reader's control flow decides.
Message(group, stream) == [Group |-> group, Stream |-> stream]

\* getMessage as it would be if an entry without a tag were an error.
getMessageTagRequired(streamName, e) ==
    LET tag == GetDataValue(e, "CONTAINER_TAG")
        s1 == GetDataValue(e, streamName)
        s2 == GetDataValue(e, "CONTAINER_ID_FULL")
    IN
    IF tag.err
    THEN [msg |-> Message(tag.v, <<>>), ok |-> FALSE, err |-> "missing tag"]
    ELSE IF s1.err /\ s2.err
    THEN [msg |-> Message(tag.v, <<>>), ok |-> FALSE,
          err |-> "missing CONTAINER_ID_FULL"]
    ELSE [msg |-> Message(tag.v, sanitizeStreamName(IF s1.err THEN s2.v ELSE s1.v)),
          ok |-> TRUE, err |-> "nil"]

\* getMessage as it would be without the fallback to CONTAINER_ID_FULL.
getMessageNoFallback(streamName, e) ==
    LET tag == GetDataValue(e, "CONTAINER_TAG")
        s1 == GetDataValue(e, streamName)
    IN
    IF Len(tag.v) = 0
    THEN [msg |-> Message(tag.v, <<>>), ok |-> FALSE, err |-> "nil"]
    ELSE IF s1.err
    THEN [msg |-> Message(tag.v, <<>>), ok |-> FALSE,
          err |-> "missing CONTAINER_ID_FULL"]
    ELSE [msg |-> Message(tag.v, sanitizeStreamName(s1.v)),
          ok |-> TRUE, err |-> "nil"]

\* reader.go:262-345.  After the stream name the code fills msg.Event from
\* further fields; none of them changes ok or err.
getMessage(streamName, e) ==
    LET tag == GetDataValue(e, "CONTAINER_TAG")
        s1 == GetDataValue(e, streamName)
        s2 == GetDataValue(e, "CONTAINER_ID_FULL")
    IN
    IF Len(tag.v) = 0
    THEN [msg |-> Message(tag.v, <<>>), ok |-> FALSE, err |-> "nil"]
    ELSE IF s1.err /\ s2.err
    THEN [msg |-> Message(tag.v, <<>>), ok |-> FALSE,
          err |-> "missing CONTAINER_ID_FULL"]
    ELSE [msg |-> Message(tag.v, sanitizeStreamName(IF s1.err THEN s2.v ELSE s1.v)),
          ok |-> TRUE, err |-> "nil"]

\* What ReadMessage returned: a message ("msg"), io.EOF ("eof"), the error of
\* Next ("next") or of getMessage ("malformed"); with the entry it returned
\* on and what the call did before.
NoResult ==
    [kind |-> "none", msg |-> Message(<<>>, <<>>), entry |-> NoEntry,
     skipped |-> 0, afterStop |-> FALSE, stoppedInWait |-> FALSE, waits |-> 0]

\* reader.go:200-219: the reader NewReader builds; name is the value of
\* JOURNALD_STREAM_NAME, "" when it is not set
NewReader(name) ==
    [streamName |-> IF name = "" THEN "CONTAINER_ID_FULL" ELSE name,
     stopped |-> 0,
     handle |-> "open",     \* the sd_journal handle of r.Journal
     closes |-> 0,          \* calls of r.Journal.Close()
     pc |-> "idle",         \* where the thread in ReadMessage is
     cur |-> NoEntry,       \* the entry the journal's cursor is at
     skipped |-> 0,         \* entries this call has passed over
     afterStop |-> FALSE,   \* this call began after Close()
     stoppedInWait |-> FALSE, \* Close() came while this call was in Wait
     waits |-> 0,           \* Wait calls this call began after Close()
     ret |-> NoResult]

\* The reader r once its ReadMessage has returned.
Returned(r, kind, msg) ==
    [r EXCEPT !.pc = "idle", !.cur = NoEntry, !.skipped = 0,
              !.afterStop = FALSE, !.stoppedInWait = FALSE, !.waits = 0,
              !.ret = [kind |-> kind, msg |-> msg, entry |-> r.cur,
                       skipped |-> r.skipped, afterStop |-> r.afterStop,
                       stoppedInWait |-> r.stoppedInWait, waits |-> r.waits]]

\* reader.go:227-230, called from any thread
ReaderClose ==
    /\ rd' = [rd EXCEPT !.stopped = 1,
                        !.stoppedInWait = @ \/ (rd.stopped = 0 /\ rd.pc = "wait")]
    /\ UNCHANGED <<syslogVars, callers, sname>>

\* reader.go:232: the reader's thread calls ReadMessage
ReadMessage ==
    /\ rd.pc = "idle"
    /\ rd.closes < MaxJournalCloses
    /\ rd' = [rd EXCEPT !.pc = "loop", !.afterStop = (rd.stopped = 1)]
    /\ UNCHANGED <<syslogVars, callers, sname>>

\* reader.go:233: the loop's test of r.stopped
LoopTest ==
    /\ rd.pc = "loop"
    /\ rd' = [rd EXCEPT !.pc = IF rd.stopped = 0 THEN "next" ELSE "close"]
    /\ UNCHANGED <<syslogVars, callers, sname>>

\* reader.go:237-244: r.Next() fails, finds no new entry (and the call goes
\* into r.Wait), or moves the cursor to entry e
JournalNext(outcome, e) ==
    /\ rd.pc = "next"
    /\ CASE outcome = "err" -> rd' = Returned(rd, "next", Message(<<>>, <<>>))
         [] outcome = "none" ->
                rd' = [rd EXCEPT !.pc = "wait",
                                 !.waits = @ + (IF rd.stopped = 1 THEN 1 ELSE 0)]
         [] outcome = "entry" ->
                /\ Len(GetDataValue(e, "CONTAINER_TAG").v) = 0 =>
                       rd.skipped < MaxSkipped
                /\ rd' = [rd EXCEPT !.pc = "get", !.cur = e]
    /\ UNCHANGED <<syslogVars, callers, sname>>

\* reader.go:242-243: r.Wait(1 * time.Second) returns, after a second at
\* most, and the loop goes on
JournalWait ==
    /\ rd.pc = "wait"
    /\ rd' = [rd EXCEPT !.pc = "loop"]
    /\ UNCHANGED <<syslogVars, callers, sname>>

\* reader.go:246-248
GetMessageStep ==
    /\ rd.pc = "get"
    /\ LET r == getMessage(rd.streamName, rd.cur) IN
       IF r.ok THEN rd' = Returned(rd, "msg", r.msg)
       ELSE IF r.err # "nil" THEN rd' = Returned(rd, "malformed", r.msg)
       ELSE rd' = [rd EXCEPT !.pc = "loop", !.skipped = @ + 1]
    /\ UNCHANGED <<syslogVars, callers, sname>>

\* reader.go:251-253: r.Journal.Close() and the return of io.EOF.
\* sdjournal's Close passes the handle to sd_journal_close, which frees it,
\* and keeps the pointer: a second Close hands freed memory to
\* sd_journal_close, which may return or end the process.
JournalClose(outcome) ==
    /\ rd.pc = "close"
    /\ rd.handle = "open" => outcome = "returns"
    /\ LET closed == [rd EXCEPT !.handle = "closed", !.closes = @ + 1] IN
       IF outcome = "returns"
       THEN rd' = Returned(closed, "eof", Message(<<>>, <<>>))
       ELSE rd' = [closed EXCEPT !.pc = "crashed"]
    /\ UNCHANGED <<syslogVars, callers, sname>>

\* reader.go:212-217: JOURNALD_STREAM_NAME is not set, or names a field
StreamNameEnv == {"", "CONTAINER_NAME"}

DoJournalNext ==
    \E outcome \in {"err", "none", "entry"}, e \in Entries :
        JournalNext(outcome, e)
DoJournalClose == \E outcome \in {"returns", "crash"} : JournalClose(outcome)

\* --------------------------------------------------------- specifications
Init ==
    /\ enablePooling \in BOOLEAN
    /\ env \in EnvURLs
    /\ writerPool = <<>>
    /\ newConnections = 0
    /\ writers = <<>>
    /\ dial = NoDial
    /\ dialLog = <<>>
    /\ last = Ret("none", 0, "nil")
    /\ rd = NewReader("")
    /\ callers = NoCallers
    /\ sname = NoName

WriterIds == 1..Len(writers)

DoDialAttempt == \E outcome \in {"ok", "fail", "hsfail"} : DialAttempt(outcome)
DoClose == \E w \in WriterIds : Close(w)
DoCloseAgain == \E w \in WriterIds : CloseAgain(w)
DoWriteMessage ==
    \E w \in WriterIds, m \in {1}, failAt \in 0..2, renderOK \in BOOLEAN :
        WriteMessage(w, m, failAt, renderOK)
DoWriteMessageBatch ==
    \E w \in WriterIds, batch \in Batches :
        \E failAt \in 0..(Len(batch) + 1), rfail \in 0..Len(batch) :
            WriteMessageBatch(w, batch, failAt, rfail)
DoDialWriter == \E config \in WriterConfigs : DialWriter(config)

\* Callers of the pool: NewWriter, single-message writes, one Close per
\* writer handed out.
Next ==
    \/ NewWriter
    \/ DoDialAttempt
    \/ DoClose
    \/ DoWriteMessage

Spec == Init /\ [][Next]_vars

\* One writer, dialed by NewWriter, written to with messages and batches.
FirstWriter == Len(writers) = 0 /\ NewWriter

NextWrite ==
    \/ FirstWriter
    \/ DoDialAttempt
    \/ DoWriteMessage
    \/ DoWriteMessageBatch

SpecWrite == Init /\ [][NextWrite]_vars

\* DialWriter called with every WriterConfig.
NextDial ==
    \/ DoDialWriter
    \/ DoDialAttempt

SpecDial == Init /\ [][NextDial]_vars

\* Callers that call Close() a second time on a writer.
NextReclose ==
    \/ Next
    \/ DoCloseAgain

SpecReclose == Init /\ [][NextReclose]_vars

\* The journald reader: one thread in ReadMessage, Close() from any other.
InitJournald ==
    /\ enablePooling = FALSE
    /\ env = [set |-> FALSE, valid |-> TRUE, scheme |-> EmptyStr, host |-> EmptyStr]
    /\ writerPool = <<>>
    /\ newConnections = 0
    /\ writers = <<>>
    /\ dial = NoDial
    /\ dialLog = <<>>
    /\ last = Ret("none", 0, "nil")
    /\ \E name \in StreamNameEnv : rd = NewReader(name)
    /\ callers = NoCallers
    /\ sname = NoName

NextJournald ==
    \/ ReaderClose
    \/ ReadMessage
    \/ LoopTest
    \/ DoJournalNext
    \/ JournalWait
    \/ GetMessageStep
    \/ DoJournalClose

SpecJournald == InitJournald /\ [][NextJournald]_vars

\* Concurrent callers of NewWriter and Close.
InitConc ==
    /\ enablePooling \in BOOLEAN
    /\ env \in EnvURLs
    /\ writerPool = <<>>
    /\ newConnections = 0
    /\ writers = <<>>
    /\ dial = NoDial
    /\ dialLog = <<>>
    /\ last = Ret("none", 0, "nil")
    /\ rd = NewReader("")
    /\ callers = [c \in 1..MaxCallers |-> IdleCaller]
    /\ sname = NoName

NextConc ==
    \/ \E c \in 1..MaxCallers : ConcNewWriter(c)
    \/ \E c \in 1..MaxCallers, n \in Networks, outcome \in {"ok", "fail"} :
           ConcDialReturn(c, n, outcome)
    \/ \E c \in 1..MaxCallers, failAt \in 0..1 : ConcWriteMessage(c, failAt)
    \/ \E c \in 1..MaxCallers : ConcClose(c)
    \/ \E c \in 1..MaxCallers : ConcOffer(c)
    \/ \E c \in 1..MaxCallers : ConcBackendClose(c)

SpecConc == InitConc /\ [][NextConc]_vars

\* sanitizeStreamName on every stream name.
InitSanitize ==
    /\ enablePooling = FALSE
    /\ env = [set |-> FALSE, valid |-> TRUE, scheme |-> EmptyStr, host |-> EmptyStr]
    /\ writerPool = <<>>
    /\ newConnections = 0
    /\ writers = <<>>
    /\ dial = NoDial
    /\ dialLog = <<>>
    /\ last = Ret("none", 0, "nil")
    /\ rd = NewReader("")
    /\ callers = NoCallers
    /\ \E name \in StreamNames : sname = [NoName EXCEPT !.in = name]

NextSanitize == Sanitize

SpecSanitize == InitSanitize /\ [][NextSanitize]_vars

\* ================================================================ claims
IsWrite(r) == r.op \in {"WriteMessage", "WriteMessageBatch"}
Ids(units) == [i \in 1..Len(units) |-> units[i].m]

\* What the backend took in whole during the last write call: the datagrams
\* sent, or the complete messages that reached the stream or its buffer.
WrittenWhole ==
    IF writers[last.w].buffered
    THEN SelectSeq(last.sent \o writers[last.w].buf, LAMBDA u : u.full)
    ELSE last.sent

\* C1: when the write of the k-th message of a batch fails, WriteMessageBatch
\* returns that error, the messages before it were handed to the backend
\* once each and in batch order, the failed message was handed over once,
\* no later message was attempted, and the writer is dead.
C1_BatchStopsAtFirstFailure ==
    (last.op = "WriteMessageBatch" /\ last.err = "write") =>
        /\ last.k \in 1..Len(last.batch)
        /\ last.attempts = SubSeq(last.batch, 1, last.k)
        /\ last.accepted = SubSeq(last.batch, 1, last.k - 1)
        /\ last.flushes = 0
        /\ writers[last.w].dead
        /\ ~last.wasDead => Ids(WrittenWhole) = SubSeq(last.batch, 1, last.k - 1)

\* A batch of three failed at its second message on a fresh datagram writer.
C1_Witness ==
    /\ last.op = "WriteMessageBatch"
    /\ last.err = "write"
    /\ ~last.wasDead
    /\ last.k = 2
    /\ Len(last.batch) = 3
    /\ Len(last.sent) = 1
    /\ ~writers[last.w].buffered

\* C2: a write call on a writer that was dead returns an error and sends
\* nothing to the transport.
C2_DeadWriterRejectsWrites ==
    (IsWrite(last) /\ last.wasDead) =>
        (last.err # "nil" /\ last.sent = <<>> /\ last.attempts = <<>>)

\* C9 as claimed: on a stream transport nothing is left in the writer's
\* buffer when a write call has returned, with or without an error.
C9_BufferEmptyAfterEveryCall ==
    (IsWrite(last) /\ writers[last.w].buffered) =>
        (last.flushes >= 1 /\ writers[last.w].buf = <<>>)

\* C9 amended: on a stream transport a write call whose writes all succeeded
\* ends with one flush, and a call that returns without an error leaves
\* nothing in the buffer; a call whose write failed returns without flushing.
C9_BufferEmptyAfterSuccess ==
    (IsWrite(last) /\ writers[last.w].buffered) =>
        /\ last.err = "nil" => (last.flushes = 1 /\ writers[last.w].buf = <<>>)
        /\ last.err = "flush" => last.flushes = 1
        /\ last.err = "write" => last.flushes = 0

\* A batch that needed the buffer to be written out on the way returned nil.
C9_Witness ==
    /\ last.op = "WriteMessageBatch"
    /\ writers[last.w].buffered
    /\ last.err = "nil"
    /\ Len(last.batch) > BufCap
    /\ Ids(last.sent) = last.batch

\* The step is a Close() call on writer w.
IsCloseOf(w) ==
    /\ w \in 1..Len(writers)
    /\ writers'[w].closeCalls = writers[w].closeCalls + 1

Healthy(w) == ~writers[w].dead

C3_Step ==
    enablePooling =>
        /\ \A w \in 1..Len(writers) :
               (IsCloseOf(w) /\ Healthy(w)) =>
                   IF Len(writerPool) < PoolCap
                   THEN /\ writerPool' = Append(writerPool, w)
                        /\ writers'[w].closes = writers[w].closes
                   ELSE /\ writerPool' = writerPool
                        /\ writers'[w].closes = writers[w].closes + 1
        /\ newConnections' # newConnections => writerPool = <<>>
        /\ dial'.active /\ ~dial.active => writerPool = <<>>
        /\ Len(writerPool') < Len(writerPool) =>
               /\ writerPool' = Tail(writerPool)
               /\ last' = Ret("NewWriter", Head(writerPool), "nil")
               /\ newConnections' = newConnections
               /\ dial' = dial
               /\ writers'[Head(writerPool)].holders = 1

\* C3: with pooling enabled the pool never holds more than PoolCap writers; a
\* healthy writer that is closed joins the pool while it has room and has its
\* transport closed once the pool is full; NewWriter hands out the pool's
\* head without dialing while the pool is not empty, and dials only when the
\* pool is empty.
C3_PoolFillsThenCloses ==
    /\ [](enablePooling => Len(writerPool) <= PoolCap)
    /\ [][C3_Step]_vars

\* PoolCap + 1 healthy writers were closed: PoolCap are pooled with their
\* transports open, one has its transport closed.
C3_Witness ==
    /\ enablePooling
    /\ Len(writers) = PoolCap + 1
    /\ \A w \in 1..Len(writers) : Healthy(w) /\ writers[w].holders = 0
    /\ Len(writerPool) = PoolCap
    /\ \A i \in 1..Len(writerPool) : writers[writerPool[i]].closes = 0
    /\ Cardinality({writerPool[i] : i \in 1..Len(writerPool)}) = PoolCap
    /\ Cardinality({w \in 1..Len(writers) : writers[w].closes = 1}) = 1

C4_Step ==
    \A w \in 1..Len(writers) :
        (IsCloseOf(w) /\ writers[w].dead) =>
            /\ writers'[w].closes = writers[w].closes + 1
            /\ writerPool' = writerPool

\* C4: no writer in the pool is dead, and Close() on a dead writer closes its
\* transport and leaves the pool as it was, with pooling on or off and with
\* the pool full or not.
C4_NoDeadWriterInPool ==
    /\ [](\A i \in 1..Len(writerPool) : ~writers[writerPool[i]].dead)
    /\ [][C4_Step]_vars

\* A dead writer was closed while pooling was on and the pool had room.
C4_Witness ==
    /\ last.op = "Close"
    /\ writers[last.w].dead
    /\ enablePooling
    /\ Len(writerPool) < PoolCap
    /\ writers[last.w].closes = 1
    /\ ~last.pooled

\* C11: a write call during which the rendering of a message or an operation
\* of the transport failed returns an error and leaves the writer dead, on
\* datagram and on stream backends.
C11_NoFailureSwallowed ==
    (IsWrite(last) /\ (last.rfailed # <<>> \/ last.connFailed)) =>
        (last.err # "nil" /\ writers[last.w].dead)

\* -------------------------------------------------------------- dial claims
\* The DialWriter call in progress, or else the one that returned last.
Trace ==
    IF dial.active
    THEN [config |-> dial.config, log |-> dialLog, done |-> FALSE,
          err |-> "nil", w |-> 0]
    ELSE [config |-> last.config, log |-> last.log, done |-> last.dialed,
          err |-> last.err, w |-> last.w]

Pair(e) == <<e.n, e.a>>
IsDial(e) == e.ev = "dial"
IsSleep(e) == e.ev = "sleep"

\* C5: a candidate pair is dialed at most 3 times, with one pause after each
\* failed attempt but the third; a success at the third attempt comes after
\* two failed attempts and two pauses on that pair, and ends the call.
C5_ThreeAttemptsTwoPauses ==
    LET L == Trace.log
        n == Len(L)
    IN
    /\ \A i \in 1..n :
        /\ L[i].attempt \in 1..3
        /\ Cardinality({j \in 1..n : IsDial(L[j]) /\ Pair(L[j]) = Pair(L[i])}) <= 3
        /\ IsDial(L[i]) =>
            /\ IF i > 1 /\ IsSleep(L[i-1])
               THEN Pair(L[i]) = Pair(L[i-1]) /\ L[i].attempt = L[i-1].attempt + 1
               ELSE L[i].attempt = 1
            /\ (~L[i].ok /\ L[i].attempt < 3) => (i < n /\ IsSleep(L[i+1]))
            /\ (~L[i].ok /\ L[i].attempt = 3 /\ i < n) =>
                   (IsDial(L[i+1]) /\ Pair(L[i+1]) # Pair(L[i]))
            /\ L[i].ok => (i = n /\ Trace.done /\ Trace.err = "nil")
        /\ IsSleep(L[i]) =>
            /\ i > 1
            /\ IsDial(L[i-1]) /\ ~L[i-1].ok
            /\ Pair(L[i-1]) = Pair(L[i]) /\ L[i-1].attempt = L[i].attempt
            /\ L[i].attempt < 3
    /\ (n > 0 /\ L[n].ok /\ L[n].attempt = 3) =>
        /\ n >= 5
        /\ \A j \in {n - 4, n - 2} : IsDial(L[j]) /\ ~L[j].ok /\ Pair(L[j]) = Pair(L[n])
        /\ \A j \in {n - 3, n - 1} : IsSleep(L[j])
        /\ Cardinality({j \in 1..n : IsSleep(L[j]) /\ Pair(L[j]) = Pair(L[n])}) = 2

\* The first candidate pair failed twice and then succeeded.
C5_Witness ==
    /\ Trace.done
    /\ Len(Trace.log) = 5
    /\ Trace.log[5].ok
    /\ Trace.log[5].attempt = 3
    /\ Trace.w > 0

\* The candidate pairs in the order the claim gives: networks outermost.
Candidates(c) ==
    LET N == NetOpts(c)
        A == AddrOpts(c)
    IN [k \in 1..(Len(N) * Len(A)) |->
            <<N[((k - 1) \div Len(A)) + 1], A[((k - 1) % Len(A)) + 1]>>]

DefaultCandidates ==
    << <<NetUnixgram, AddrDevLog>>, <<NetUnixgram, AddrVarRunSyslog>>,
       <<NetUnixgram, AddrVarRunLog>>, <<NetUnix, AddrDevLog>>,
       <<NetUnix, AddrVarRunSyslog>>, <<NetUnix, AddrVarRunLog>> >>

\* The pairs a log has started on, in order.
PairsTried(L) ==
    LET F == SelectSeq(L, LAMBDA e : IsDial(e) /\ e.attempt = 1)
    IN [i \in 1..Len(F) |-> Pair(F[i])]

\* C6: the pairs are tried in the fixed order, a success ends the call with a
\* writer and nothing is dialed after it; without network and address the
\* order is unixgram then unix, each against /dev/log, /var/run/syslog,
\* /var/run/log; when every pair has failed the call returns an error and no
\* writer.
C6_PairsInOrderFirstSuccessWins ==
    LET L == Trace.log
        c == Trace.config
        P == PairsTried(L)
        C == Candidates(c)
    IN
    /\ Len(P) <= Len(C)
    /\ P = SubSeq(C, 1, Len(P))
    /\ \A i \in 1..Len(L) :
           /\ Pair(L[i]) = PairsTried(SubSeq(L, 1, i))[Len(PairsTried(SubSeq(L, 1, i)))]
           /\ L[i].ok => (i = Len(L) /\ Trace.done)
    /\ (Len(L) > 0 /\ c.Network = EmptyStr /\ c.Address = EmptyStr) =>
           C = DefaultCandidates
    /\ (Trace.done /\ Trace.err = "nil") =>
           (L[Len(L)].ok /\ Trace.w = Len(writers))
    /\ (Trace.done /\ Trace.err # "nil") =>
           /\ Trace.w = 0
           /\ P = C
           /\ \A i \in 1..Len(L) : ~L[i].ok
           /\ \A k \in 1..Len(C) :
                  Cardinality({i \in 1..Len(L) : IsDial(L[i]) /\ Pair(L[i]) = C[k]}) = 3

\* Without network and address, the three unixgram pairs failed and unix on
\* /dev/log succeeded.
C6_Witness ==
    /\ Trace.done
    /\ Trace.err = "nil"
    /\ Trace.config.Network = EmptyStr
    /\ Trace.config.Address = EmptyStr
    /\ PairsTried(Trace.log) = SubSeq(DefaultCandidates, 1, 4)
    /\ Trace.log[Len(Trace.log)].ok

\* The networks the claim selects for a configuration.
ExpectedNetworks(c) ==
    IF c.Network # EmptyStr THEN <<c.Network>>
    ELSE IF c.Address = EmptyStr \/ Head(c.Address) = "/"
         THEN <<NetUnixgram, NetUnix>>
         ELSE <<NetTls>>

\* C7: the networks dialed are those selected from the configured network and
\* address alone: the configured network if there is one, else unixgram then
\* unix for an empty address or a path, else tls; tcp and udp are dialed only
\* when configured.
C7_SelectionByNetworkAndAddress ==
    LET L == Trace.log
        c == Trace.config
        E == ExpectedNetworks(c)
        P == PairsTried(L)
    IN
    Len(L) > 0 =>
        /\ NetOpts(c) = E
        /\ NetOpts([c EXCEPT !.TLS = "nil", !.SocksProxy = EmptyStr]) = E
        /\ \A i \in 1..Len(L) : \E k \in 1..Len(E) : L[i].n = E[k]
        /\ \A i, j \in 1..Len(P) :
               i < j => \E k, l \in 1..Len(E) : k <= l /\ P[i][1] = E[k] /\ P[j][1] = E[l]
        /\ (Trace.done /\ Trace.err # "nil") =>
               \A k \in 1..Len(E) : \E i \in 1..Len(L) : L[i].n = E[k]
        /\ c.Network \notin {NetTcp, NetUdp} =>
               \A i \in 1..Len(L) : L[i].n \notin {NetTcp, NetUdp}

\* A host address without a network was dialed over tls, with success.
C7_Witness ==
    /\ Trace.done
    /\ Trace.err = "nil"
    /\ Trace.config.Network = EmptyStr
    /\ Trace.config.Address = AddrHost
    /\ Trace.log[Len(Trace.log)].n = NetTls

\* C8: with a SOCKS proxy configured, an attempt on a plain network runs no
\* TLS handshake, and an attempt on the tls network succeeds only with a
\* completed handshake, whether the TLS config is set or not.
C8_ProxiedTlsNeedsHandshake ==
    \A i \in 1..Len(Trace.log) :
        LET e == Trace.log[i] IN
        (IsDial(e) /\ e.proxied) =>
            /\ e.n # NetTls => ~e.hsRun
            /\ (e.n = NetTls /\ e.ok) => e.hsDone

\* C10: a second Close() on a writer leaves the pool and the writer's
\* transport as the first Close() left them: it neither closes the transport
\* again nor offers the writer to the pool again.
C10_SecondCloseChangesNothing ==
    [][\A w \in 1..Len(writers) :
           (IsCloseOf(w) /\ writers[w].closeCalls >= 1) =>
               /\ writerPool' = writerPool
               /\ writers'[w].closes = writers[w].closes]_vars

\* The networks dialWriter can dial: "tls" and those net.Dial knows.
SupportedNetworks ==
    {NetUnix, NetUnixgram, NetUnixpacket, NetTcp, NetUdp, NetUdp4, NetUdp6, NetTls}

\* A URL that is a configuration error: it does not parse, or its scheme is
\* not one of the supported ones.
ConfigError(e, supported) == e.set /\ (~e.valid \/ e.scheme \notin supported)

\* C13: a URL that does not parse or names an unsupported scheme makes
\* NewWriter return an error with no dial attempt repeated and no pause: for
\* the datadog writer on DATADOG_URL, for the syslog writer on SYSLOG_URL.
C13_ConfigErrorsNotRetried ==
    /\ \A e \in EnvURLs :
           ConfigError(e, {NetUdp}) => DatadogNewWriter(e) # "dial"
    /\ LET viaNewWriter ==
               IF dial.active THEN dial.via = "NewWriter" ELSE last.op = "NewWriter"
           L == Trace.log
       IN (viaNewWriter /\ ConfigError(env, SupportedNetworks)) =>
              /\ Cardinality({i \in 1..Len(L) : IsDial(L[i])}) <= 1
              /\ \A i \in 1..Len(L) : ~IsSleep(L[i])
              /\ ~dial.active => last.err # "nil"

\* ------------------------------------------------------ journald claims
\* What C12 says of a ReadMessage that was in Wait when Close() came: it
\* begins no further Wait and returns io.EOF; and of any call that Close()
\* overtakes: it begins one Wait at most before it returns.
C12_BlockedCallEnds ==
    /\ rd.waits <= 1
    /\ rd.ret.waits <= 1
    /\ rd.stoppedInWait => (rd.waits = 0 /\ rd.pc \in {"wait", "loop", "close"})
    /\ rd.ret.stoppedInWait => (rd.ret.kind = "eof" /\ rd.ret.waits = 0)

\* What C12 says of a ReadMessage that begins after Close(): it reads nothing
\* from the journal and returns io.EOF.
C12_LaterCallsEnd ==
    /\ rd.afterStop => rd.pc \in {"loop", "close"}
    /\ rd.ret.afterStop => rd.ret.kind = "eof"

\* C12: after Close(), a ReadMessage blocked in its wait for entries returns
\* io.EOF after one more wait at most, and every ReadMessage that begins
\* later returns io.EOF and no message.
C12_ClosedReaderReturnsEOF == C12_BlockedCallEnds /\ C12_LaterCallsEnd

C14_Step ==
    ~enablePooling =>
        /\ writerPool' = writerPool
        /\ \A w \in 1..Len(writers) :
               /\ IsCloseOf(w) => writers'[w].closes = writers[w].closes + 1
               /\ writers'[w].holders <= writers[w].holders
        /\ newConnections' # newConnections =>
               /\ newConnections' = newConnections + 1
               /\ \/ dial'.active /\ ~dial.active /\ dial'.via = "NewWriter"
                  \/ last'.op = "NewWriter" /\ last'.err = "invalid syslog URL"
        /\ (last' # last /\ last'.op = "NewWriter") =>
               /\ newConnections' # newConnections \/ dial.active
               /\ last'.err = "nil" =>
                      /\ last'.w = Len(writers) + 1
                      /\ Len(writers') = Len(writers) + 1
                      /\ last'.dialed
                      /\ last'.log # <<>>

\* C14: with pooling disabled the pool stays empty whatever is called; every
\* NewWriter call takes the dial path (it counts a new connection and calls
\* DialWriter, unless SYSLOG_URL does not parse) and a writer it returns is
\* one that call dialed; every Close() closes the writer's transport.
C14_PoolingDisabledFrame ==
    /\ [](~enablePooling => writerPool = <<>>)
    /\ [][C14_Step]_vars

\* With pooling disabled, two NewWriter calls dialed a writer each and both
\* writers were closed healthy.
C14_Witness ==
    /\ ~enablePooling
    /\ Len(writers) = 2
    /\ newConnections = 2
    /\ \A w \in 1..Len(writers) : Healthy(w) /\ writers[w].closes = 1
    /\ writerPool = <<>>
    /\ last.op = "Close"

\* C15: on every writer state and for every answer of the template and of
\* the transport, WriteMessage(m) and WriteMessageBatch of the batch <<m>>
\* send the same to the transport, leave the same in the buffer, flush
\* alike, return the same error and leave w.dead the same.
C15_SingleMessageIsBatchOfOne ==
    \A w \in 1..Len(writers), msg \in Msgs, failAt \in 0..2, renderOK \in BOOLEAN :
        LET a == WriteMessageResult(writers[w], msg, failAt, renderOK)
            b == WriteMessageBatchResult(writers[w], <<msg>>, failAt,
                                         IF renderOK THEN 0 ELSE 1)
        IN /\ a.sent = b.sent
           /\ a.buf = b.buf
           /\ a.bufErr = b.bufErr
           /\ a.flushes = b.flushes
           /\ a.errKind = b.errKind
           /\ a.err = b.err
           /\ a.dead = b.dead

\* WriteMessage was called on a stream writer whose buffer held an earlier
\* message, and its flush failed.
C15_Witness ==
    /\ last.op = "WriteMessage"
    /\ writers[last.w].buffered
    /\ last.err = "flush"
    /\ Len(writers[last.w].buf) > 0
    /\ writers[last.w].dead

\* The entry has a container tag: the field is there and is not empty.
Tagged(e) == e["CONTAINER_TAG"].has /\ Len(e["CONTAINER_TAG"].v) > 0

C16_Step ==
    (rd.pc = "get" /\ rd'.pc # "get" /\ ~Tagged(rd.cur)) =>
        /\ rd'.pc = "loop"
        /\ rd'.ret = rd.ret
        /\ rd'.skipped = rd.skipped + 1

\* C16: a Message that ReadMessage returns has a Group that is not empty and
\* comes from an entry with a container tag; an entry without one ends in
\* no return, with or without an error: the call goes back to its loop.
C16_NoMessageWithoutTag ==
    /\ [](rd.ret.kind = "msg" =>
              /\ Len(rd.ret.msg.Group) > 0
              /\ Tagged(rd.ret.entry)
              /\ rd.ret.msg.Group = rd.ret.entry["CONTAINER_TAG"].v)
    /\ [](rd.ret.kind = "malformed" => Tagged(rd.ret.entry))
    /\ [][C16_Step]_vars

\* A ReadMessage call passed over two entries without a tag and returned the
\* message of the entry after them.
C16_Witness ==
    /\ rd.pc = "idle"
    /\ rd.ret.kind = "msg"
    /\ rd.ret.skipped = 2
    /\ Tagged(rd.ret.entry)

C17_Step ==
    (rd.pc = "get" /\ rd'.pc # "get" /\ Tagged(rd.cur)) =>
        /\ rd'.pc = "idle"
        /\ rd'.ret.entry = rd.cur
        /\ rd'.ret.kind \in {"msg", "malformed"}

\* C17: for an entry with a container tag ReadMessage returns at once: a
\* Message whose stream is the (sanitized) value of the configured field, or
\* of CONTAINER_ID_FULL when the configured field is missing, or the
\* malformed-event error and no Message when both are missing; the error is
\* returned for tagged entries only, which are never passed over.
C17_StreamFallbackThenError ==
    /\ [](rd.ret.kind \in {"msg", "malformed"} =>
              LET e == rd.ret.entry
                  configured == e[rd.streamName]
                  fallback == e["CONTAINER_ID_FULL"]
              IN /\ Tagged(e)
                 /\ rd.ret.kind = "malformed" <=> (~configured.has /\ ~fallback.has)
                 /\ rd.ret.kind = "malformed" => rd.ret.msg.Stream = <<>>
                 /\ (rd.ret.kind = "msg" /\ configured.has) =>
                        rd.ret.msg.Stream = sanitizeStreamName(configured.v)
                 /\ (rd.ret.kind = "msg" /\ ~configured.has) =>
                        rd.ret.msg.Stream = sanitizeStreamName(fallback.v))
    /\ [][C17_Step]_vars

\* The configured field CONTAINER_NAME was missing and the stream came from
\* CONTAINER_ID_FULL.
C17_Witness ==
    /\ rd.ret.kind = "msg"
    /\ rd.streamName = "CONTAINER_NAME"
    /\ ~rd.ret.entry["CONTAINER_NAME"].has
    /\ rd.ret.entry["CONTAINER_ID_FULL"].has
    /\ rd.ret.msg.Stream = sanitizeStreamName(LongId)

\* C18: the result of sanitizeStreamName holds no ':' and no '*' and is no
\* longer than the limit, and sanitizeStreamName leaves its own result as it
\* is.
C18_SanitizeIdempotent ==
    /\ sname.applied >= 1 =>
           /\ \A i \in 1..Len(sname.once) : sname.once[i] \notin {":", "*"}
           /\ Len(sname.once) <= StreamCap
           /\ Len(sname.once) <= Len(sname.in)
    /\ sname.applied = 2 => sname.twice = sname.once

\* A name longer than the limit, with ':' and '*' among the bytes that are
\* kept, was sanitized twice.
C18_Witness ==
    /\ sname.applied = 2
    /\ Len(sname.in) > StreamCap
    /\ sname.in[1] = ":"
    /\ sname.in[2] = "*"
    /\ Len(sname.twice) = StreamCap
    /\ sname.twice[1] = "/"
    /\ sname.twice[2] = "/"

C20_FailedDialLeavesNothingOpen ==
    LET L == Trace.log
        open == {i \in 1..Len(L) : L[i].leftOpen}
    IN /\ \A i \in 1..Len(L) : (IsDial(L[i]) /\ ~L[i].ok) => ~L[i].leftOpen
       /\ Trace.done =>
              Cardinality(open) = (IF Trace.err = "nil" THEN 1 ELSE 0)

\* What C21 says of Close(): it sets the stop flag and does nothing to the
\* journal handle, which only a ReadMessage that has seen the flag releases.
C21_CloseOnlySetsFlag ==
    /\ rd.handle = "closed" => rd.stopped = 1
    /\ rd.closes > 0 <=> rd.handle = "closed"
    /\ rd.pc = "close" => rd.stopped = 1

\* What C21 says of reads: no Next, Wait or GetDataValue is under way or
\* still to come on a handle that has been closed.
C21_NoReadAfterClose ==
    rd.handle = "closed" => rd.pc \notin {"next", "wait", "get"}

\* C21: whatever Close() and ReadMessage() calls are made on a reader, its
\* journal handle is closed once at most and is not read once closed;
\* Close() only sets the stop flag, and the handle is released by the
\* ReadMessage call that sees the flag.
C21_JournalClosedAtMostOnce ==
    /\ rd.closes <= 1
    /\ C21_NoReadAfterClose
    /\ C21_CloseOnlySetsFlag

====
